---- MODULE Spec2Model ----
(***************************************************************************)
(* A model of the two programs of the repository:                          *)
(*                                                                         *)
(*   mockdata_equipment_maintenance_data_generator.py  (the batch program) *)
(*     reads maintenance records, renders a summary of each, asks the      *)
(*     embedding service for its vector and upserts a document per record  *)
(*     into a MongoDB collection;                                          *)
(*   run_equipment_maintenance_query.py  (the interactive program)         *)
(*     reads query lines, embeds each, Avro-encodes {msg, vector} and      *)
(*     produces it to a Kafka topic, flushing the producer on the way out. *)
(*                                                                         *)
(* A Python dict is a function whose domain is its set of keys: a missing  *)
(* key is a field name outside the domain, and reading it is a KeyError.   *)
(* A Python str read from the terminal is a sequence of characters.        *)
(***************************************************************************)
EXTENDS Integers, Sequences, FiniteSets, TLC

\* ---------------------------------------------------------------- bounds
\* The longest input file (number of records) the batch program is run on.
MaxRecords == 2
\* The most documents the collection holds before the batch program starts.
MaxStored == 1
\* The runs of the batch program over the same input file: one, and one more.
Runs == {1, 2}

\* ------------------------------------------------- the batch program: data
\* One representative field of each kind a record has:
\*   record_id        the upsert key, stored, not part of the summary;
\*   service_date     stored, not part of the summary (as equipment_id and
\*                    service_type);
\*   reported_issue   stored and part of the summary (as equipment_type,
\*                    location, diagnostic_findings, actions_taken,
\*                    post_service_notes, severity_level);
\*   technician       part of the summary, not stored (as
\*                    service_duration_minutes).
RecordIds == {"R1", "R2"}
ServiceDates == {"D1"}
Issues == {"leak", "noise"}
Technicians == {"T1"}

WellFormedRecords ==
    [record_id : RecordIds, service_date : ServiceDates,
     reported_issue : Issues, technician : Technicians]

\* The dict r without the key k.
Without(r, k) == [f \in (DOMAIN r) \ {k} |-> r[f]]

\* The records an input file may hold: well formed, or one key short.
InputRecords ==
    WellFormedRecords
    \cup {Without(r, "reported_issue") : r \in WellFormedRecords}
    \cup {Without(r, "service_date") :
             r \in {w \in WellFormedRecords :
                       w.record_id = "R1" /\ w.reported_issue = "leak"}}

\* The keys create_summary reads, and the keys the document is built from.
SummaryKeys == {"reported_issue", "technician"}
DocKeys == {"record_id", "service_date", "reported_issue"}

\* Faulty variant of create_summary: the template names the record too.
create_summary_with_id(record) ==
    <<"Maintenance log", record["record_id"], "Reported Issue",
      record["reported_issue"], "Service performed by", record["technician"]>>

\* create_summary: the template filled with the record's fields, in the
\* template's order.  Only called on a record that has the SummaryKeys.
create_summary(record) ==
    <<"Maintenance log", "Reported Issue", record["reported_issue"],
      "Service performed by", record["technician"]>>

\* Whether create_summary(record) raises KeyError.
SummaryRaises(record) == ~(SummaryKeys \subseteq DOMAIN record)

\* client.embed(...).embeddings[0] when the service answers: a vector that
\* depends on the text alone.
VoyageVector(summary) ==
    IF summary[3] = "leak" THEN <<1, 2>> ELSE <<2, 1>>

\* What one call of the embedding service does: it answers or it raises.
ServiceOutcomes == {"answer", "raise"}

\* get_embeddings: the vector, or [] when anything raised.
get_embeddings(prompt, outcome) ==
    IF outcome = "answer" THEN VoyageVector(prompt) ELSE <<>>

\* Faulty variant of get_embeddings_remote_calls: a failed call is tried
\* once more.
get_embeddings_retrying(outcome) == IF outcome = "raise" THEN 2 ELSE 1

\* get_embeddings, line 62: the calls of client.embed one invocation makes.
get_embeddings_remote_calls(outcome) == 1

\* get_embeddings, lines 60-66: how the invocation ends. Every exception is
\* caught, logged and turned into the return value [].
get_embeddings_ends(outcome) == "returned"

\* Faulty variant of SkipsRecord: the empty vector is not checked for.
NeverSkips(embeddings) == FALSE

\* `if not embeddings`: the record is skipped.
SkipsRecord(embeddings) == embeddings = <<>>

\* Whether building mongo_doc raises KeyError (the log line of a skipped
\* record reads record_id as well, within the same try).
DocRaises(record) == ~(DocKeys \subseteq DOMAIN record)

\* mongo_doc. Only built from a record that has the DocKeys.
mongo_doc(record, summary, embeddings) ==
    [record_id |-> record["record_id"],
     service_date |-> record["service_date"],
     reported_issue |-> record["reported_issue"],
     summary |-> summary,
     embeddings |-> embeddings]

\* ------------------------------------------------ the collection (MongoDB)
\* The collection is the sequence of its documents in insertion order; no
\* unique index on record_id is created by the program.
Matches(coll, key) ==
    {n \in 1..Len(coll) : "record_id" \in DOMAIN coll[n] /\ coll[n]["record_id"] = key}

FirstMatch(coll, key) ==
    CHOOSE n \in Matches(coll, key) : \A m \in Matches(coll, key) : n <= m

\* {"$set": doc} on a stored document: the fields of doc are written, every
\* other field of the stored document is kept.
ApplySet(old, doc) ==
    [f \in (DOMAIN old) \cup (DOMAIN doc) |->
        IF f \in DOMAIN doc THEN doc[f] ELSE old[f]]

\* Faulty variant of update_one: insert_one(doc), whatever is stored.
insert_one(coll, key, doc) == Append(coll, doc)

\* collection.update_one({"record_id": key}, {"$set": doc}, upsert=True):
\* the first matching document is updated; with none, a document made of
\* the filter and the $set fields is inserted.
update_one(coll, key, doc) ==
    IF Matches(coll, key) # {}
    THEN [coll EXCEPT ![FirstMatch(coll, key)] = ApplySet(@, doc)]
    ELSE Append(coll, ApplySet([record_id |-> key], doc))

\* Documents that may be in the collection before the program starts:
\* written by an earlier run over other data, some with a field the program
\* does not write.
StoredBefore ==
    {[record_id |-> "R1", service_date |-> "D0", reported_issue |-> "old",
      summary |-> <<"Maintenance log", "Reported Issue", "old",
                    "Service performed by", "T0">>,
      embeddings |-> <<3, 3>>, technician_notes |-> "keep"],
     [record_id |-> "R2", service_date |-> "D0", reported_issue |-> "old",
      summary |-> <<"Maintenance log", "Reported Issue", "old",
                    "Service performed by", "T0">>,
      embeddings |-> <<3, 3>>]}

RECURSIVE SeqsUpTo(_, _)
SeqsUpTo(S, n) ==
    IF n = 0 THEN {<<>>}
    ELSE LET shorter == SeqsUpTo(S, n - 1)
         IN shorter \cup {Append(s, x) : s \in {t \in shorter : Len(t) = n - 1}, x \in S}

\* The most adapter invocations looked at on their own.
MaxCalls == 2

\* ------------------------------------------- the interactive program: data
\* The most query lines (other than the exit token) read in one session.
MaxQueries == 2

\* Lines typed at the prompt, as sequences of characters.
InputLines ==
    {<<"e", "x", "i", "t">>,
     <<" ", "E", "x", "i", "t", " ">>,
     <<"p", "u", "m", "p">>,
     <<" ", "o", "i", "l">>,
     <<>>}

IsSpace(c) == c = " "

\* str.strip(): leading and trailing whitespace removed.
RECURSIVE lstrip(_)
lstrip(s) == IF s # <<>> /\ IsSpace(Head(s)) THEN lstrip(Tail(s)) ELSE s

RECURSIVE rstrip(_)
rstrip(s) ==
    IF s # <<>> /\ IsSpace(s[Len(s)]) THEN rstrip(SubSeq(s, 1, Len(s) - 1)) ELSE s

strip(s) == rstrip(lstrip(s))

\* str.lower()
LowerChar(c) ==
    CASE c = "E" -> "e" [] c = "X" -> "x" [] c = "I" -> "i" [] c = "T" -> "t"
      [] OTHER -> c

lower(s) == [n \in 1..Len(s) |-> LowerChar(s[n])]

\* Faulty variant of IsExit: the comparison without lower().
IsExitCaseSensitive(user_input) == user_input = <<"e", "x", "i", "t">>

\* `user_input.lower() == 'exit'`
IsExit(user_input) == lower(user_input) = <<"e", "x", "i", "t">>

\* Python's None and a value that is not None, for `vector`.
None == <<>>
Some(v) == <<v>>

\* voyage_client.embed(...).embeddings[0] when the service answers: double
\* precision numbers that depend on the text alone.
QueryVector(query_text) == <<Len(query_text), 2>>

\* float(x) on a Python float: the same double.
PyFloat(x) == x

\* get_embedding: Some(list of floats), or None standing for "raised"
\* (RuntimeError when the key or the model is not configured, or whatever
\* the client raised).
get_embedding(query_text, is_configured, outcome) ==
    IF ~is_configured THEN None
    ELSE IF outcome # "answer" THEN None
    ELSE LET emb == QueryVector(query_text)
         IN Some([n \in 1..Len(emb) |-> PyFloat(emb[n])])

\* get_embedding, lines 94-104: the calls of voyage_client.embed one
\* invocation makes.
get_embedding_remote_calls(is_configured, outcome) ==
    IF is_configured THEN 1 ELSE 0

\* get_embedding: how the invocation ends. Nothing is caught: what the
\* client raises reaches the caller as it is.
get_embedding_ends(is_configured, outcome) ==
    IF ~is_configured THEN "raised RuntimeError"
    ELSE IF outcome # "answer" THEN "raised the client's error"
    ELSE "returned"

\* send_user_query, lines 115-125: the message built for the serializer.
BuildMessage(query_text, embedded) ==
    [msg |-> query_text, vector |-> embedded]

\* What an Avro `float` holds of a double: single precision. The doubles of
\* the model are integers, and the single precision ones the even integers.
AvroFloat(x) == x - (x % 2)

\* avro_serializer(message, ctx): the schema's name and the two fields in
\* schema order, the vector's items written as Avro floats.
avro_serializer(message) ==
    [schema |-> "user_query_embeddings_value",
     msg |-> message.msg,
     vector |-> IF message.vector = None THEN None
                ELSE Some([n \in 1..Len(message.vector[1]) |->
                              AvroFloat(message.vector[1][n])])]

\* Reading a payload back under user_query_schema_str: the two fields, the
\* vector's items as the Avro floats that were written.
avro_deserialize(payload) ==
    [msg |-> payload.msg, vector |-> payload.vector]

NoMessage == [msg |-> <<>>, vector |-> None]
NoPayload == [schema |-> "", msg |-> <<>>, vector |-> None]

\* The places of the while loop of main, where an interrupt can arrive.
LoopPlaces == {"input", "embed", "serialize", "produce", "poll", "sleep"}

VARIABLES
    \* ---- the batch program
    readable,      \* whether the input file can be opened and parsed
    file,          \* the records of the input file, in order
    collection,    \* the MongoDB collection
    bpc,           \* where the batch program is
    idx,           \* the record the for loop is at (1-based)
    mongo_open,    \* whether processor.mongo_client holds an open client
    raised,        \* whether process_maintenance_records raised in this run
    run,           \* which run over the file this is
    env_log,       \* per run, what the embedding service and the store did per record
    after_run,     \* per finished run, the collection it left
    upserts,       \* per run, the update_one calls issued: <<index, document>>
    before_run,    \* the collection as the run at hand found it
    \* ---- the interactive program
    configured,    \* whether VOYAGEAI_API_KEY and VOYAGEAI_TEXT_EMBEDDING_MODEL are set
    qpc,           \* where the interactive program is
    user_input,    \* the stripped line read last
    embed_raised,  \* whether get_embedding raised for the query at hand
    message,       \* the message of the query at hand
    serialized,    \* its serialized form
    queue,         \* producer: messages accepted by produce(), not yet acknowledged
    ready,         \* producer: delivery outcomes not yet handed to the callback
    reports,       \* the calls of delivery_report made so far
    accepted,      \* how many messages produce() has accepted
    queries,       \* how many query lines were read
    exc,           \* the exception propagating out of main, if any
    producer_open, \* whether the producer (and the embedding client) is still held
    sent,          \* per accepted message: the query, whether embedding failed,
                   \* the message and the payload
    lines,         \* the lines read at the prompt so far, as typed
    \* ---- the functions on their own
    rec_a,         \* a record
    rec_b,         \* another record
    summaries,     \* <<>>, or the summaries of rec_a and of rec_b
    calls          \* the adapter invocations made: what the service did, how many
                   \* remote calls were issued, how the invocation ended

bvars == <<readable, file, collection, bpc, idx, mongo_open, raised, run, env_log,
           after_run, upserts, before_run>>

qvars == <<configured, qpc, user_input, embed_raised, message, serialized, queue,
           ready, reports, accepted, queries, exc, producer_open, sent, lines>>

fvars == <<rec_a, rec_b, summaries, calls>>

vars == <<bvars, qvars, fvars>>

BatchInit ==
    /\ readable \in BOOLEAN
    /\ file \in IF readable THEN SeqsUpTo(InputRecords, MaxRecords) ELSE {<<>>}
    /\ collection \in SeqsUpTo(StoredBefore, MaxStored)
    /\ before_run = collection
    /\ bpc = "start"
    /\ idx = 0
    /\ mongo_open = FALSE
    /\ raised = FALSE
    /\ run = 1
    /\ env_log = [n \in Runs |-> <<>>]
    /\ after_run = [n \in Runs |-> <<>>]
    /\ upserts = [n \in Runs |-> <<>>]

\* main, line 126: EquipmentMaintenanceProcessor(). MongoClient(uri) connects
\* lazily: construction succeeds whether or not the store is reachable.
Construct ==
    /\ bpc = "start"
    /\ mongo_open' = TRUE
    /\ bpc' = "load"
    /\ UNCHANGED <<readable, file, before_run, collection, idx, raised, run, env_log, after_run, upserts,
                   qvars, fvars>>

\* Faulty variant of Load: a file that cannot be read counts as an empty
\* list of records.
LoadIgnoresFailure ==
    /\ bpc = "load"
    /\ raised' = raised
    /\ bpc' = "loop"
    /\ idx' = 1
    /\ UNCHANGED <<readable, file, before_run, collection, mongo_open, run, env_log,
                   after_run, upserts, qvars, fvars>>

\* process_maintenance_records, lines 70-75: open and json.load. A failure
\* is caught at line 120, logged and raised again.
Load ==
    /\ bpc = "load"
    /\ IF ~readable
       THEN /\ raised' = TRUE
            /\ bpc' = "caught"
            /\ idx' = idx
       ELSE /\ raised' = raised
            /\ bpc' = "loop"
            /\ idx' = 1
    /\ UNCHANGED <<readable, file, before_run, collection, mongo_open, run, env_log, after_run, upserts,
                   qvars, fvars>>

\* Faulty variant of Abort: the failure undoes what the run has written.
AbortRollsBack(what) ==
    /\ raised' = TRUE
    /\ bpc' = "caught"
    /\ env_log' = [env_log EXCEPT ![run] = Append(@, what)]
    /\ collection' = before_run
    /\ UNCHANGED <<idx, upserts>>

\* The exception leaves the for loop: lines 120-122.
Abort(what) ==
    /\ raised' = TRUE
    /\ bpc' = "caught"
    /\ env_log' = [env_log EXCEPT ![run] = Append(@, what)]
    /\ UNCHANGED <<collection, idx, upserts>>

\* Faulty variant of Skip: the empty vector is stored for the record_id
\* before the loop continues.
SkipStoresEmpty ==
    /\ idx' = idx + 1
    /\ env_log' = [env_log EXCEPT ![run] = Append(@, "embed_failed")]
    /\ collection' = update_one(collection, file[idx]["record_id"],
                                [embeddings |-> <<>>])
    /\ UNCHANGED <<raised, bpc, upserts>>

\* `continue`, line 87.
Skip ==
    /\ idx' = idx + 1
    /\ env_log' = [env_log EXCEPT ![run] = Append(@, "embed_failed")]
    /\ UNCHANGED <<collection, raised, bpc, upserts>>

\* Faulty variant of Upsert: a document already stored for the record_id is
\* kept as it is ($setOnInsert instead of $set).
UpsertKeepsFirst(doc) ==
    /\ collection' = IF Matches(collection, doc["record_id"]) # {}
                     THEN collection
                     ELSE Append(collection, doc)
    /\ upserts' = [upserts EXCEPT ![run] = Append(@, <<idx, doc>>)]
    /\ idx' = idx + 1
    /\ env_log' = [env_log EXCEPT ![run] = Append(@, "upserted")]
    /\ UNCHANGED <<raised, bpc>>

\* Lines 107-116: the upsert went through.
Upsert(doc) ==
    /\ collection' = update_one(collection, doc["record_id"], doc)
    /\ upserts' = [upserts EXCEPT ![run] = Append(@, <<idx, doc>>)]
    /\ idx' = idx + 1
    /\ env_log' = [env_log EXCEPT ![run] = Append(@, "upserted")]
    /\ UNCHANGED <<raised, bpc>>

\* One iteration of the for loop, lines 78-116.
ProcessRecord ==
    /\ bpc = "loop"
    /\ idx <= Len(file)
    /\ \E svc \in ServiceOutcomes, store_ok \in BOOLEAN :
         LET record == file[idx] IN
         IF SummaryRaises(record) THEN Abort("key_error")
         ELSE LET summary == create_summary(record)
                  embeddings == get_embeddings(summary, svc)
              IN IF SkipsRecord(embeddings)
                 THEN IF "record_id" \in DOMAIN record
                      THEN Skip ELSE Abort("key_error")
                 ELSE IF DocRaises(record) THEN Abort("key_error")
                 ELSE IF store_ok
                      THEN Upsert(mongo_doc(record, summary, embeddings))
                      ELSE Abort("store_error")
    /\ UNCHANGED <<readable, file, before_run, mongo_open, run, after_run,
                   qvars, fvars>>

\* Line 118: the loop is over, the method returns.
Completed ==
    /\ bpc = "loop"
    /\ idx > Len(file)
    /\ bpc' = "exit"
    /\ after_run' = [after_run EXCEPT ![run] = collection]
    /\ UNCHANGED <<readable, file, before_run, collection, idx, mongo_open, raised, run, env_log, upserts,
                   qvars, fvars>>

\* main, lines 134-135: the exception raised again at line 122 is logged;
\* main returns.
MainCatches ==
    /\ bpc = "caught"
    /\ bpc' = "exit"
    /\ after_run' = [after_run EXCEPT ![run] = collection]
    /\ UNCHANGED <<readable, file, before_run, collection, idx, mongo_open, raised, run, env_log, upserts,
                   qvars, fvars>>

\* The program is started again on the same file and the same collection.
RunAgain ==
    /\ bpc = "exit"
    /\ run + 1 \in Runs
    /\ run' = run + 1
    /\ bpc' = "start"
    /\ idx' = 0
    /\ raised' = FALSE
    /\ mongo_open' = FALSE
    /\ before_run' = collection
    /\ UNCHANGED <<readable, file, collection, env_log, after_run, upserts,
                   qvars, fvars>>

BatchNext ==
    \/ Construct
    \/ Load
    \/ ProcessRecord
    \/ Completed
    \/ MainCatches
    \/ RunAgain

\* ------------------------------------------------ the interactive program
\* Module level, lines 66-78: the registry client, the serializer, the
\* producer and the embedding client are created; main starts.
QueryStart(conf) ==
    /\ configured = conf
    /\ qpc = "input"
    /\ user_input = <<>>
    /\ embed_raised = FALSE
    /\ message = NoMessage
    /\ serialized = NoPayload
    /\ queue = <<>>
    /\ ready = <<>>
    /\ reports = <<>>
    /\ accepted = 0
    /\ queries = 0
    /\ exc = "none"
    /\ producer_open = TRUE
    /\ sent = <<>>
    /\ lines = <<>>

QueryInit == \E conf \in BOOLEAN : QueryStart(conf)

\* Lines 146-150: a line is read and stripped; the exit token breaks out of
\* the loop, into the finally clause.
ReadLine ==
    /\ qpc = "input"
    /\ \E line \in InputLines :
         /\ user_input' = strip(line)
         /\ lines' = Append(lines, line)
         /\ IF IsExit(strip(line))
            THEN /\ qpc' = "finally"
                 /\ queries' = queries
            ELSE /\ queries < MaxQueries
                 /\ qpc' = "embed"
                 /\ queries' = queries + 1
    /\ embed_raised' = FALSE
    /\ UNCHANGED <<configured, message, serialized, queue, ready,
                   reports, accepted, exc, producer_open, sent, bvars, fvars>>

\* input() raises EOFError (the terminal is closed): not a
\* KeyboardInterrupt, so only the finally clause runs.
ReadFails ==
    /\ qpc = "input"
    /\ exc' = "EOFError"
    /\ qpc' = "finally"
    /\ UNCHANGED <<configured, lines, user_input, embed_raised, message, serialized, queue,
                   ready, reports, accepted, queries, producer_open, sent, bvars, fvars>>

\* Faulty variant of Embed: no try/except around get_embedding, so what it
\* raises leaves send_user_query and the loop.
EmbedUncaught ==
    /\ qpc = "embed"
    /\ \E outcome \in ServiceOutcomes :
         LET embedded == get_embedding(user_input, configured, outcome) IN
         /\ embed_raised' = (embedded = None)
         /\ message' = IF embedded = None THEN message
                       ELSE BuildMessage(user_input, embedded)
         /\ qpc' = IF embedded = None THEN "finally" ELSE "serialize"
         /\ exc' = IF embedded = None THEN "RuntimeError" ELSE exc
    /\ UNCHANGED <<configured, lines, user_input, serialized, queue, ready, reports,
                   accepted, queries, producer_open, sent, bvars, fvars>>

\* send_user_query, lines 115-126: the embedding, None when it raised, and
\* the message.
Embed ==
    /\ qpc = "embed"
    /\ \E outcome \in ServiceOutcomes :
         LET embedded == get_embedding(user_input, configured, outcome) IN
         /\ embed_raised' = (embedded = None)
         /\ message' = BuildMessage(user_input, embedded)
    /\ qpc' = "serialize"
    /\ UNCHANGED <<configured, lines, user_input, serialized, queue, ready, reports,
                   accepted, queries, exc, producer_open, sent, bvars, fvars>>

\* Lines 129-132: the serializer returns the payload, or raises (the
\* message does not fit the schema, or the registry refuses); what it raises
\* is caught nowhere in send_user_query and is no KeyboardInterrupt.
Serialize ==
    /\ qpc = "serialize"
    /\ \E ok \in BOOLEAN :
         IF ok
         THEN /\ serialized' = avro_serializer(message)
              /\ qpc' = "produce"
              /\ exc' = exc
         ELSE /\ serialized' = serialized
              /\ qpc' = "finally"
              /\ exc' = "SerializationError"
    /\ UNCHANGED <<configured, lines, user_input, embed_raised, message, queue, ready,
                   reports, accepted, queries, producer_open, sent, bvars, fvars>>

\* Lines 135-139: produce() queues the payload and returns, or raises
\* (BufferError, KafkaException) without queueing it.
Produce ==
    /\ qpc = "produce"
    /\ \E ok \in BOOLEAN :
         IF ok
         THEN /\ queue' = Append(queue, accepted + 1)
              /\ accepted' = accepted + 1
              /\ sent' = Append(sent, [query |-> user_input,
                                       embed_raised |-> embed_raised,
                                       message |-> message,
                                       value |-> serialized])
              /\ qpc' = "poll"
              /\ exc' = exc
         ELSE /\ UNCHANGED <<queue, accepted, sent>>
              /\ qpc' = "finally"
              /\ exc' = "KafkaException"
    /\ UNCHANGED <<configured, lines, user_input, embed_raised, message, serialized, ready,
                   reports, queries, producer_open, bvars, fvars>>

\* The callbacks one poll() or one round of flush() serves: delivery_report
\* is called for every outcome that is ready, in order.
ServeCallbacks ==
    /\ reports' = reports \o ready
    /\ ready' = <<>>

\* Faulty variant of Poll: send_user_query returns without producer.poll(0).
PollSkipped ==
    /\ qpc = "poll"
    /\ qpc' = "sleep"
    /\ UNCHANGED <<configured, lines, user_input, embed_raised, message, serialized,
                   queue, ready, reports, accepted, queries, exc, producer_open, sent,
                   bvars, fvars>>

\* Line 140: producer.poll(0).
Poll ==
    /\ qpc = "poll"
    /\ ServeCallbacks
    /\ qpc' = "sleep"
    /\ UNCHANGED <<configured, lines, user_input, embed_raised, message, serialized, queue,
                   accepted, queries, exc, producer_open, sent, bvars, fvars>>

\* Line 156: time.sleep(0.5), then the next turn of the loop.
Sleep ==
    /\ qpc = "sleep"
    /\ qpc' = "input"
    /\ UNCHANGED <<configured, lines, user_input, embed_raised, message, serialized, queue,
                   ready, reports, accepted, queries, exc, producer_open, sent, bvars, fvars>>

\* Faulty variant of Interrupt: the try statement sits inside the while
\* loop, so a caught KeyboardInterrupt is followed by the next prompt.
InterruptResumes ==
    /\ qpc \in LoopPlaces
    /\ qpc' = "input"
    /\ UNCHANGED <<configured, lines, user_input, embed_raised, message, serialized,
                   queue, ready, reports, accepted, queries, exc, producer_open, sent,
                   bvars, fvars>>

\* Lines 157-158: KeyboardInterrupt anywhere in the try block is caught;
\* the finally clause follows.
Interrupt ==
    /\ qpc \in LoopPlaces
    /\ qpc' = "finally"
    /\ UNCHANGED <<configured, lines, user_input, embed_raised, message, serialized, queue,
                   ready, reports, accepted, queries, exc, producer_open, sent, bvars, fvars>>

\* Faulty variant of Finally: the finally clause does not flush.
FinallyWithoutFlush ==
    /\ qpc = "finally"
    /\ qpc' = "exit"
    /\ UNCHANGED <<configured, lines, user_input, embed_raised, message, serialized, queue,
                   ready, reports, accepted, queries, exc, producer_open, sent, bvars, fvars>>

\* Lines 159-162: the finally clause calls producer.flush().
Finally ==
    /\ qpc = "finally"
    /\ qpc' = "flush"
    /\ UNCHANGED <<configured, lines, user_input, embed_raised, message, serialized, queue,
                   ready, reports, accepted, queries, exc, producer_open, sent, bvars, fvars>>

\* flush() serves callbacks while it waits.
FlushServes ==
    /\ qpc = "flush"
    /\ ready # <<>>
    /\ ServeCallbacks
    /\ UNCHANGED <<configured, lines, qpc, user_input, embed_raised, message, serialized,
                   queue, accepted, queries, exc, producer_open, sent, bvars, fvars>>

\* Faulty variant of FlushReturns: flush(timeout) returns when the time is
\* up, whatever is still queued.
FlushTimesOut ==
    /\ qpc = "flush"
    /\ qpc' = "exit"
    /\ UNCHANGED <<configured, lines, user_input, embed_raised, message, serialized, queue,
                   ready, reports, accepted, queries, exc, producer_open, sent, bvars, fvars>>

\* flush() without a timeout returns when nothing is queued or in flight;
\* line 163 prints, main returns (or the exception goes on) and the
\* process ends. Nothing closes the producer or the embedding client.
FlushReturns ==
    /\ qpc = "flush"
    /\ queue = <<>>
    /\ ready = <<>>
    /\ qpc' = "exit"
    /\ UNCHANGED <<configured, lines, user_input, embed_raised, message, serialized, queue,
                   ready, reports, accepted, queries, exc, producer_open, sent, bvars, fvars>>

\* The producer's background thread: the oldest queued message is
\* delivered, or fails for good (message.timeout.ms); its outcome waits for
\* a poll() or flush() to serve the callback.
Deliver ==
    /\ qpc # "exit"
    /\ queue # <<>>
    /\ \E err \in {"none", "failed"} :
         ready' = Append(ready, [id |-> Head(queue), err |-> err])
    /\ queue' = Tail(queue)
    /\ UNCHANGED <<configured, lines, qpc, user_input, embed_raised, message, serialized,
                   reports, accepted, queries, exc, producer_open, sent, bvars, fvars>>

QueryNext ==
    \/ ReadLine
    \/ ReadFails
    \/ Embed
    \/ Serialize
    \/ Produce
    \/ Poll
    \/ Sleep
    \/ Interrupt
    \/ Finally
    \/ FlushServes
    \/ FlushReturns
    \/ Deliver

\* The batch program idle (for the interactive program's specification).
BatchIdle ==
    /\ readable = TRUE
    /\ file = <<>>
    /\ collection = <<>>
    /\ before_run = <<>>
    /\ bpc = "start"
    /\ idx = 0
    /\ mongo_open = FALSE
    /\ raised = FALSE
    /\ run = 1
    /\ env_log = [n \in Runs |-> <<>>]
    /\ after_run = [n \in Runs |-> <<>>]
    /\ upserts = [n \in Runs |-> <<>>]

\* The functions on their own, idle.
FunctionsIdle ==
    /\ rec_a = [record_id |-> "R1", service_date |-> "D1",
                reported_issue |-> "leak", technician |-> "T1"]
    /\ rec_b = rec_a
    /\ summaries = <<>>
    /\ calls = <<>>

\* The batch program, run once and once more over one file.
InitBatch == BatchInit /\ QueryStart(TRUE) /\ FunctionsIdle

SpecBatch == InitBatch /\ [][BatchNext]_vars

\* The interactive program, one session.
InitQuery == BatchIdle /\ QueryInit /\ FunctionsIdle

SpecQuery == InitQuery /\ [][QueryNext]_vars

\* ------------------------------------------------ create_summary alone
\* Well-formed records over two values of every field.
SummaryRecords ==
    [record_id : RecordIds, service_date : {"D1", "D2"},
     reported_issue : Issues, technician : {"T1", "T2"}]

InitSummary ==
    /\ BatchIdle
    /\ QueryStart(TRUE)
    /\ rec_a \in SummaryRecords
    /\ rec_b \in SummaryRecords
    /\ summaries = <<>>
    /\ calls = <<>>

\* create_summary is called on the two records.
Summarize ==
    /\ summaries = <<>>
    /\ summaries' = <<create_summary(rec_a), create_summary(rec_b)>>
    /\ UNCHANGED <<rec_a, rec_b, calls, bvars, qvars>>

\* create_summary is called on the first record once more.
SummarizeAgain ==
    /\ Len(summaries) = 2
    /\ summaries' = Append(summaries, create_summary(rec_a))
    /\ UNCHANGED <<rec_a, rec_b, calls, bvars, qvars>>

SummaryNext ==
    \/ Summarize
    \/ SummarizeAgain

SpecSummary == InitSummary /\ [][SummaryNext]_vars

\* ------------------------------------------- the embedding adapters alone
InitAdapters ==
    /\ BatchIdle
    /\ QueryStart(TRUE)
    /\ FunctionsIdle

\* get_embeddings(prompt) is invoked on the summary of a record.
CallBatchAdapter ==
    /\ Len(calls) < MaxCalls
    /\ \E record \in WellFormedRecords, outcome \in ServiceOutcomes :
         LET prompt == create_summary(record) IN
         calls' = Append(calls,
                    [adapter |-> "get_embeddings",
                     text |-> prompt,
                     set_up |-> TRUE,
                     outcome |-> outcome,
                     remote_calls |-> get_embeddings_remote_calls(outcome),
                     ended |-> get_embeddings_ends(outcome),
                     empty |-> get_embeddings(prompt, outcome) = <<>>])
    /\ UNCHANGED <<rec_a, rec_b, summaries, bvars, qvars>>

\* get_embedding(query_text) is invoked on a query.
CallQueryAdapter ==
    /\ Len(calls) < MaxCalls
    /\ \E line \in InputLines, set_up \in BOOLEAN, outcome \in ServiceOutcomes :
         /\ ~IsExit(strip(line))
         /\ calls' = Append(calls,
                       [adapter |-> "get_embedding",
                        text |-> strip(line),
                        set_up |-> set_up,
                        outcome |-> outcome,
                        remote_calls |-> get_embedding_remote_calls(set_up, outcome),
                        ended |-> get_embedding_ends(set_up, outcome),
                        empty |-> get_embedding(strip(line), set_up, outcome) = None])
    /\ UNCHANGED <<rec_a, rec_b, summaries, bvars, qvars>>

AdaptersNext ==
    \/ CallBatchAdapter
    \/ CallQueryAdapter

SpecAdapters == InitAdapters /\ [][AdaptersNext]_vars

\* ================================================================ claims
\* Helpers over the logs of a run.
Last(s) == s[Len(s)]

UpsertedIndexes(r) == {upserts[r][n][1] : n \in 1..Len(upserts[r])}

HasDocumentFor(key) == Matches(collection, key) # {}

Count(s, id) == Cardinality({n \in 1..Len(s) : s[n].id = id})

\* ------------------------------------------------------------------- C1
\* C1 (as claimed): when exactly one record k of the file fails
\* summarization and the service and the store fail for no record, the run
\* ends with every other record upserted and its document in the store,
\* none written for k, and exactly one failure logged.
C1_BatchIsolation ==
    (/\ bpc = "exit"
     /\ run = 1
     /\ readable
     /\ Cardinality({j \in 1..Len(file) : SummaryRaises(file[j])}) = 1
     /\ \A j \in 1..Len(file) :
           ~SummaryRaises(file[j]) => file[j] \in WellFormedRecords
     /\ \A n \in 1..Len(env_log[run]) :
           env_log[run][n] \notin {"embed_failed", "store_error"})
    => /\ \A j \in 1..Len(file) :
             IF SummaryRaises(file[j])
             THEN j \notin UpsertedIndexes(run)
             ELSE /\ j \in UpsertedIndexes(run)
                  /\ HasDocumentFor(file[j]["record_id"])
       /\ Cardinality({n \in 1..Len(env_log[run]) :
                          env_log[run][n] = "key_error"}) = 1

\* ------------------------------------------------------------------- C2
\* C2: when the second run over the same file meets the same behaviour of
\* the embedding service and the store as the first, record by record, it
\* leaves the collection exactly as the first run left it: the same
\* documents with the same fields, and no further document for any
\* record_id.
C2_Idempotent ==
    (bpc = "exit" /\ run = 2 /\ env_log[2] = env_log[1])
    => /\ collection = after_run[1]
       /\ \A key \in RecordIds :
             Cardinality(Matches(collection, key))
                = Cardinality(Matches(after_run[1], key))

\* A second run that upserted over documents the first run wrote, and over
\* a document that was there before.
C2_Witness ==
    /\ bpc = "exit"
    /\ run = 2
    /\ env_log[2] = env_log[1]
    /\ Len(upserts[2]) = 2
    /\ Len(collection) = 2
    /\ \E n \in 1..Len(collection) : "technician_notes" \in DOMAIN collection[n]

\* ------------------------------------------------------------------- C3
\* C3 (as claimed): after an upsert the document stored under its
\* record_id is exactly the document just built: the same fields, the same
\* values, nothing left of what was stored before.
C3_WholeDocumentReplaced ==
    upserts[run] # <<>>
    => LET doc == Last(upserts[run])[2]
       IN collection[FirstMatch(collection, doc["record_id"])] = doc

\* ------------------------------------------------------------------- C4
\* C4: a record whose embedding call failed is never upserted, no upsert
\* and no stored document carries an empty embeddings vector, and right
\* after the failure the loop is at the next record with nothing raised.
C4_EmbedFailureSkipsRecord ==
    /\ \A n \in 1..Len(env_log[run]) :
          env_log[run][n] = "embed_failed" => n \notin UpsertedIndexes(run)
    /\ \A n \in 1..Len(upserts[run]) : upserts[run][n][2]["embeddings"] # <<>>
    /\ \A n \in 1..Len(collection) : collection[n]["embeddings"] # <<>>
    /\ (env_log[run] # <<>> /\ Last(env_log[run]) = "embed_failed")
       => /\ ~raised
          /\ bpc \in {"loop", "exit"}
          /\ idx = Len(env_log[run]) + 1

\* The first record's embedding failed and the second record was upserted.
C4_Witness ==
    /\ Len(env_log[run]) = 2
    /\ env_log[run][1] = "embed_failed"
    /\ env_log[run][2] = "upserted"
    /\ UpsertedIndexes(run) = {2}

\* ------------------------------------------------------------------- C5
\* C5: when get_embedding raises for a query, the next step is the
\* serializer, with the message {msg: the query, vector: None}, and no
\* exception is set; every message accepted after a failed embedding
\* carries the query text and a null vector.
C5_EmbedFailureDegrades ==
    /\ [][(qpc = "embed" /\ embed_raised')
          => /\ qpc' = "serialize"
             /\ exc' = "none"
             /\ message' = [msg |-> user_input, vector |-> None]]_vars
    /\ [](\A n \in 1..Len(sent) :
             sent[n].embed_raised
             => /\ sent[n].value.msg = sent[n].query
                /\ sent[n].value.vector = None)

\* A query whose embedding failed was produced with a null vector, and the
\* next line has been read.
C5_Witness ==
    /\ qpc = "embed"
    /\ sent # <<>>
    /\ Last(sent).embed_raised
    /\ Last(sent).query = <<"p", "u", "m", "p">>
    /\ Last(sent).value.vector = None
    /\ exc = "none"

\* ------------------------------------------------------------------- C6
\* C6: when the process ends, by whatever way the loop was left, nothing
\* accepted by produce() is still queued or waiting for its callback:
\* every accepted message has had its delivery outcome reported.
C6_ShutdownComplete ==
    qpc = "exit"
    => /\ queue = <<>>
       /\ ready = <<>>
       /\ \A id \in 1..accepted : \E n \in 1..Len(reports) : reports[n].id = id

\* The loop was left by an error of produce() after one message was
\* accepted, whose delivery failed.
C6_Witness ==
    /\ qpc = "exit"
    /\ exc = "KafkaException"
    /\ accepted = 1
    /\ Len(reports) = 1
    /\ reports[1].err = "failed"

\* ------------------------------------------------------------------- C7
\* C7 (as claimed): after the serializer has raised the loop is still
\* alive: the program is at a place of the loop, not on its way out.
C7_SerializationNotFatal ==
    exc = "SerializationError" => qpc \in LoopPlaces

\* ------------------------------------------------------------------- C8
\* C8 (as claimed): with a readable file of well-formed records, a store
\* error on one record does not end the run: every record of the file,
\* those after the failing one included, is handled.
C8_StoreErrorContained ==
    (/\ bpc = "exit"
     /\ readable
     /\ \A j \in 1..Len(file) : file[j] \in WellFormedRecords
     /\ \E n \in 1..Len(env_log[run]) : env_log[run][n] = "store_error")
    => Len(env_log[run]) = Len(file)

\* ------------------------------------------------------------------- C9
\* C9: delivery_report is never called twice for a message, never for a
\* message produce() did not accept, always with a success or a failure,
\* and by the time the process ends it has been called exactly once for
\* every accepted message.
C9_CallbackExactlyOnce ==
    /\ \A n \in 1..Len(reports) :
          /\ reports[n].id \in 1..accepted
          /\ reports[n].err \in {"none", "failed"}
          /\ Count(reports, reports[n].id) = 1
    /\ qpc = "exit" => \A id \in 1..accepted : Count(reports, id) = 1

\* The process ended after an interrupt or the exit token with two messages
\* accepted, one delivered and one failed.
C9_Witness ==
    /\ qpc = "exit"
    /\ exc = "none"
    /\ accepted = 2
    /\ Len(reports) = 2
    /\ reports[1].err = "none"
    /\ reports[2].err = "failed"

\* ------------------------------------------------------------------ C10
\* C10 (as claimed): when either program has ended, the connections it
\* opened are closed.
C10_ConnectionsReleased ==
    /\ bpc = "exit" => ~mongo_open
    /\ qpc = "exit" => ~producer_open

\* ------------------------------------------------------------------ C11
\* The fields of a record the summary template reads.
TemplateFields == {"reported_issue", "technician"}

DifferingFields(a, b) == {f \in DOMAIN a : a[f] # b[f]}

\* C11 (as claimed): two well-formed records that differ in any field have
\* different summaries.
C11_SummaryDiffersOnAnyField ==
    (Len(summaries) >= 2 /\ rec_a # rec_b) => summaries[1] # summaries[2]

\* C11 (amended): a repeated call returns the same summary; two records
\* that agree on every field the template reads have the same summary,
\* whatever their record_id and service_date; two records that differ in
\* exactly one field the template reads have different summaries.
C11_SummaryReadsTemplateFields ==
    /\ Len(summaries) = 3 => summaries[3] = summaries[1]
    /\ Len(summaries) >= 2
       => /\ DifferingFields(rec_a, rec_b) \cap TemplateFields = {}
             => summaries[1] = summaries[2]
          /\ Cardinality(DifferingFields(rec_a, rec_b) \cap TemplateFields) = 1
             => summaries[1] # summaries[2]

\* Two records with another record_id and another service_date, summarized
\* to the same text.
C11_Witness ==
    /\ Len(summaries) = 3
    /\ DifferingFields(rec_a, rec_b) = {"record_id", "service_date"}
    /\ summaries[1] = summaries[2]

\* ------------------------------------------------------------------ C12
\* The document of the last upsert of the run for a record_id.
LastUpserted(key) ==
    LET at == {n \in 1..Len(upserts[run]) : upserts[run][n][2]["record_id"] = key}
        last == CHOOSE n \in at : \A m \in at : m <= n
    IN upserts[run][last][2]

UpsertedKeys == {upserts[run][n][2]["record_id"] : n \in 1..Len(upserts[run])}

\* C12: the step in which the run fails leaves the collection as it was,
\* and once the run has failed every record_id upserted earlier in the run
\* still has its document, with every field at the value last written.
C12_NoRollback ==
    /\ [][(raised' /\ ~raised) => collection' = collection]_vars
    /\ [](raised
          => \A key \in UpsertedKeys :
                /\ HasDocumentFor(key)
                /\ LET stored == collection[FirstMatch(collection, key)]
                       doc == LastUpserted(key)
                   IN \A f \in DOMAIN doc : f \in DOMAIN stored /\ stored[f] = doc[f])

\* The run failed on its second record after it had upserted the first.
C12_Witness ==
    /\ bpc = "exit"
    /\ raised
    /\ Len(env_log[run]) = 2
    /\ UpsertedIndexes(run) = {1}
    /\ collection # before_run

\* ------------------------------------------------------------------ C13
\* C13: with an input file that cannot be opened or parsed, no step of the
\* run touches the collection or handles a record, and once loading is
\* over process_maintenance_records has raised with nothing summarized,
\* embedded or upserted and the collection as the run found it.
C13_UnreadableInputIsFatal ==
    /\ [][~readable => /\ collection' = collection
                       /\ env_log' = env_log
                       /\ upserts' = upserts]_vars
    /\ []((~readable /\ bpc \in {"caught", "exit"})
          => /\ raised
             /\ env_log[run] = <<>>
             /\ upserts[run] = <<>>
             /\ collection = before_run)

\* The run over an unreadable file has ended, the collection holding what
\* it held before.
C13_Witness ==
    /\ ~readable
    /\ bpc = "exit"
    /\ raised
    /\ collection # <<>>
    /\ collection = before_run

C15_RoundTrip ==
    \A n \in 1..Len(sent) : avro_deserialize(sent[n].value) = sent[n].message

\* ------------------------------------------------------------------ C16
\* The moves of the loop: reading, embedding, encoding, publishing (produce
\* and poll), idling, and from any place of the loop to the shutdown.
LoopMoves ==
    {<<"input", "embed">>, <<"embed", "serialize">>, <<"serialize", "produce">>,
     <<"produce", "poll">>, <<"poll", "sleep">>, <<"sleep", "input">>}

ShutdownMoves ==
    {<<p, "finally">> : p \in LoopPlaces}
    \cup {<<"finally", "flush">>, <<"flush", "exit">>}

ShutdownPlaces == {"finally", "flush", "exit"}

StaysShutDown ==
    /\ qpc' \in ShutdownPlaces
    /\ lines' = lines
    /\ queries' = queries
    /\ accepted' = accepted
    /\ sent' = sent

\* C16: the program only moves along the loop, in the order read, embed,
\* encode, publish, or from the loop into the shutdown; the payload at
\* produce() is the encoding of the message built from the line read; at
\* most one query is under way; and once in the shutdown it stays there,
\* reads no line and publishes nothing.
C16_LoopStateMachine ==
    /\ [][qpc' # qpc => <<qpc, qpc'>> \in LoopMoves \cup ShutdownMoves]_vars
    /\ [][(qpc \in ShutdownPlaces) => StaysShutDown]_vars
    /\ [](/\ qpc \in {"serialize", "produce"} => message.msg = user_input
          /\ qpc = "produce" => serialized = avro_serializer(message)
          /\ accepted <= queries
          /\ queries <= accepted + 1
          /\ qpc \in {"poll", "sleep", "input"} => queries = accepted
          /\ qpc \in {"embed", "serialize", "produce"} => queries = accepted + 1)

\* Two queries went round the loop, then the exit token ended the session.
C16_Witness ==
    /\ qpc = "exit"
    /\ exc = "none"
    /\ accepted = 2
    /\ Len(lines) = 3
    /\ Last(lines) = <<"e", "x", "i", "t">>

\* ------------------------------------------------------------------ C17
Served == reports' = reports \o ready /\ ready' = <<>>

\* C17: delivery_report is called only inside poll() or flush(), which
\* hand over every outcome that is ready; a produce() that returned is
\* followed by poll(); the loop leaves poll() with no outcome left unserved
\* and reaches the next prompt only by way of poll() and the sleep.
C17_OutcomesSurfaceThroughPump ==
    /\ [][(reports' # reports) => (qpc \in {"poll", "flush"} /\ Served)]_vars
    /\ [][(accepted' # accepted) => (qpc = "produce" /\ qpc' = "poll")]_vars
    /\ [][(qpc = "poll" /\ qpc' = "sleep") => Served]_vars
    /\ [][(qpc' = "sleep" /\ qpc # "sleep") => qpc = "poll"]_vars
    /\ [][(qpc' = "input" /\ qpc # "input") => qpc = "sleep"]_vars

\* The first message was delivered before poll(0) ran, and poll(0) called
\* delivery_report for it.
C17_Witness ==
    /\ qpc = "sleep"
    /\ accepted = 1
    /\ queue = <<>>
    /\ ready = <<>>
    /\ Len(reports) = 1
    /\ reports[1].id = 1

\* ------------------------------------------------------------------ C18
\* The first run, over a collection that was empty when it started.
FromEmptyStore == run = 1 /\ before_run = <<>>

\* The document lines 90-104 build from the n-th record of the file when
\* the service answers.
DocBuiltFrom(n) ==
    mongo_doc(file[n], create_summary(file[n]),
              VoyageVector(create_summary(file[n])))

\* The records of the file handled so far that carry the key and ended as
\* one of `ends` in the log of the run.
HandledAs(key, ends) ==
    {n \in 1..Len(env_log[run]) :
        /\ env_log[run][n] \in ends
        /\ "record_id" \in DOMAIN file[n]
        /\ file[n]["record_id"] = key}

Greatest(S) == CHOOSE n \in S : \A m \in S : m <= n

\* At most one document per record_id, each with a vector and with the
\* summary of a record of the file it was built from.
StoreWellFormed ==
    /\ \A key \in RecordIds : Cardinality(Matches(collection, key)) <= 1
    /\ \A n \in 1..Len(collection) :
          /\ collection[n]["embeddings"] # <<>>
          /\ \E m \in 1..Len(env_log[run]) :
                /\ env_log[run][m] = "upserted"
                /\ collection[n] = DocBuiltFrom(m)
                /\ collection[n]["summary"] = create_summary(file[m])

\* The stored document of every key is the one built from the last record
\* with that key that ended as one of `ends`.
StoredIsLastOf(ends) ==
    \A key \in RecordIds :
        HasDocumentFor(key)
        => /\ HandledAs(key, ends) # {}
           /\ collection[FirstMatch(collection, key)]
                = DocBuiltFrom(Greatest(HandledAs(key, ends)))

\* C18 (as claimed): from an empty store, the store holds at most one
\* document per record_id, each with a non-empty vector and the summary of
\* its record, and the document of a record_id is the one built from the
\* last record with that id whose embedding succeeded (whether or not the
\* write that followed went through).
C18_StoredIsLastEmbedded ==
    FromEmptyStore
    => StoreWellFormed /\ StoredIsLastOf({"upserted", "store_error"})

\* C18 (amended): from an empty store, the store holds at most one document
\* per record_id, each with a non-empty vector and the summary of its
\* record; a record_id has a document exactly when a record with that id
\* was upserted, and the document is the one built from the last record
\* with that id that was upserted.
C18_StoredIsLastUpserted ==
    FromEmptyStore
    => /\ StoreWellFormed
       /\ StoredIsLastOf({"upserted"})
       /\ \A key \in RecordIds :
             HandledAs(key, {"upserted"}) # {} => HasDocumentFor(key)

\* Two records with the same record_id and different issues were both
\* upserted; one document is stored.
C18_Witness ==
    /\ FromEmptyStore
    /\ bpc = "exit"
    /\ env_log[run] = <<"upserted", "upserted">>
    /\ file[1]["record_id"] = file[2]["record_id"]
    /\ file[1]["reported_issue"] # file[2]["reported_issue"]
    /\ Len(collection) = 1

\* ------------------------------------------------------------------ C19
\* The step handles one record and logs a failed embedding for it.
EmbedFailedStep ==
    /\ Len(env_log'[run]) = Len(env_log[run]) + 1
    /\ Last(env_log'[run]) = "embed_failed"

\* C19: the step that handles a record whose embedding failed leaves the
\* whole collection as it was; and a record_id that had a document when the
\* run started and for which the run has upserted no record has the same
\* documents, field for field, at the same places.
C19_EmbedFailureKeepsStored ==
    /\ [][EmbedFailedStep => collection' = collection]_vars
    /\ [](\A key \in RecordIds :
            (Matches(before_run, key) # {} /\ HandledAs(key, {"upserted"}) = {})
            => /\ Matches(collection, key) = Matches(before_run, key)
               /\ \A n \in Matches(before_run, key) : collection[n] = before_run[n])

\* The first run stored a document for the record; in the second run the
\* embedding of the same record failed and the document is still there.
C19_Witness ==
    /\ run = 2
    /\ env_log[1] = <<"upserted">>
    /\ env_log[2] = <<"embed_failed">>
    /\ Len(file) = 1
    /\ HasDocumentFor(file[1]["record_id"])
    /\ collection[FirstMatch(collection, file[1]["record_id"])]["embeddings"] # <<>>

\* ------------------------------------------------------------------ C20
\* The lines of InputLines that are the exit token once trimmed and
\* lower-cased, and the trimmed text of the others, written out by hand.
ExitLines == {<<"e", "x", "i", "t">>, <<" ", "E", "x", "i", "t", " ">>}

Trimmed(line) ==
    CASE line = <<"p", "u", "m", "p">> -> <<"p", "u", "m", "p">>
      [] line = <<" ", "o", "i", "l">> -> <<"o", "i", "l">>
      [] line = <<>> -> <<>>
      [] line = <<"e", "x", "i", "t">> -> <<"e", "x", "i", "t">>
      [] line = <<" ", "E", "x", "i", "t", " ">> -> <<"E", "x", "i", "t">>

\* input() returned a line.
LineRead == Len(lines') = Len(lines) + 1

\* C20: reading an exit line goes to the finally clause with no call of
\* send_user_query, and nothing is embedded, encoded or produced after it;
\* reading any other line, the empty one included, calls send_user_query
\* once with the trimmed line; each call produces at most one message, whose
\* text is the trimmed line, and whenever the prompt is reached again every
\* line read so far has produced exactly one.
C20_ExitToken ==
    /\ [][LineRead
          => IF Last(lines') \in ExitLines
             THEN /\ qpc' = "finally"
                  /\ queries' = queries
                  /\ UNCHANGED <<message, serialized, queue, accepted, sent>>
             ELSE /\ qpc' = "embed"
                  /\ queries' = queries + 1
                  /\ user_input' = Trimmed(Last(lines'))]_vars
    /\ [][(lines # <<>> /\ Last(lines) \in ExitLines)
          => UNCHANGED <<lines, message, serialized, accepted, sent, queries>>]_vars
    /\ [](/\ Len(sent) <= Len(lines)
          /\ \A n \in 1..Len(sent) :
                /\ lines[n] \notin ExitLines
                /\ sent[n].message.msg = Trimmed(lines[n])
                /\ sent[n].value.msg = Trimmed(lines[n])
          /\ qpc = "input" => Len(sent) = Len(lines))

\* The line " Exit " ended the loop after the empty line and " oil" had
\* each been produced once.
C20_Witness ==
    /\ qpc = "exit"
    /\ exc = "none"
    /\ lines = << <<>>, <<" ", "o", "i", "l">>, <<" ", "E", "x", "i", "t", " ">> >>
    /\ Len(sent) = 2
    /\ sent[1].value.msg = <<>>
    /\ sent[2].value.msg = <<"o", "i", "l">>

====
